---- MODULE Spec2Model ----
(***************************************************************************)
(* The personal-colour / bone-structure matching dashboard of myapp.py.    *)
(*                                                                         *)
(* myapp.py is a Streamlit script: every user interaction (a multiselect   *)
(* change, a text-area edit, a button press, a page reload) runs the whole *)
(* script from line 1 to the end, or to the first st.stop() or uncaught    *)
(* exception.  One action of this module is one such script run.  What     *)
(* survives between runs is the widget state (the two selections and the   *)
(* question), the st.cache_data cache of load_data, the catalogue file and *)
(* the secret store.                                                       *)
(*                                                                         *)
(* The Japanese string literals of the source are written here in ASCII.   *)
(***************************************************************************)
EXTENDS Integers, Sequences, FiniteSets, TLC

VARIABLES
    resource,                  \* cosmetic_products.csv: "ok", "absent", "malformed"
    fileRows,                  \* the records the file holds when it parses
    secrets,                   \* st.secrets: a function from key names to strings
    cache,                     \* st.cache_data of load_data: <<>> or <<value>>
    readCount,                 \* how often pd.read_csv has been called
    selected_personal_colors,  \* widget state of the first multiselect
    selected_bone_structures,  \* widget state of the second multiselect
    user_query,                \* widget state of the text area
    status,                    \* how the last script run ended
    banner,                    \* what the load stage of the last run displayed
    df,                        \* df of the last run
    filtered_df,               \* filtered_df of the last run
    tab1, tab2, tab3,          \* what the three presentation tabs rendered
    clicked,                   \* st.button returned True in the last run
    advice                     \* what tab4 did in the last run

vars == <<resource, fileRows, secrets, cache, readCount,
          selected_personal_colors, selected_bone_structures, user_query,
          status, banner, df, filtered_df, tab1, tab2, tab3, clicked, advice>>

(***************************************************************************)
(* Bounds of the model.                                                    *)
(***************************************************************************)
PoolSize == 6     \* the longest catalogue file
MaxSel == 2       \* the most labels chosen in one multiselect
MaxReads == 3     \* the most reads of the catalogue file

(***************************************************************************)
(* Program constants.                                                      *)
(***************************************************************************)
personal_color_options == <<"iebe-haru", "iebe-aki", "burube-natsu", "burube-fuyu">>

bone_structure_options == <<"straight", "wave", "natural">>

display_columns ==
    <<"Product_Name", "Category", "Personal_Color_Type",
      "Bone_Structure_Type", "Color_Group", "Description">>

prompt_columns ==
    <<"Product_Name", "Category", "Color_Group",
      "Personal_Color_Type", "Bone_Structure_Type">>

HeadRows == 5

HardCodedKey == "key-literal-of-line-138"

SecretName == "GEMINI_API_KEY"

(***************************************************************************)
(* The environment: the catalogue files, the secret stores, the questions  *)
(* and the outcomes of the external call that the model draws from.        *)
(***************************************************************************)
Categories == <<"lip", "tops", "eyeshadow">>

ColorGroups == <<"red", "pink">>

FileRow(i) ==
    [Product_Name        |-> "item-" \o ToString(i),
     Category            |-> Categories[(i % 3) + 1],
     Personal_Color_Type |-> personal_color_options[(i % 4) + 1],
     Bone_Structure_Type |-> bone_structure_options[((i \div 2) % 3) + 1],
     Color_Group         |-> ColorGroups[((i \div 3) % 2) + 1],
     Description         |-> "about item-" \o ToString(i)]

CatalogFiles == {[i \in 1..n |-> FileRow(i - 1)] : n \in 0..PoolSize}

NoSecrets == [k \in {} |-> ""]

StoredKeys == {"key-A"}

SecretStores == {NoSecrets} \cup {[k \in {SecretName} |-> v] : v \in StoredKeys}

Questions == {"", "Which lip colour suits me?"}

CallOutcomes == {"ok", "NetworkError", "QuotaError", "MalformedResponse", "KeyError"}

Min(a, b) == IF a < b THEN a ELSE b

Range(s) == {s[i] : i \in 1..Len(s)}

(***************************************************************************)
(* 2. load_data under @st.cache_data.  A cached value is returned without  *)
(* running the body.  The body returns the parsed file, or, on             *)
(* FileNotFoundError, shows the error banner and returns an empty frame;   *)
(* any other exception of pd.read_csv leaves the function, and the cache   *)
(* keeps nothing of a call that raised.                                    *)
(***************************************************************************)
EmptyDataFrame == <<>>

read_csv(rows) == [i \in 1..Len(rows) |-> rows[i] @@ ("index" :> (i - 1))]

load_data_body ==
    CASE resource = "ok" ->
            [raised |-> "none", value |-> read_csv(fileRows), banner |-> "none"]
      [] resource = "absent" ->
            [raised |-> "none", value |-> EmptyDataFrame, banner |-> "LoadError"]
      [] OTHER ->
            [raised |-> "ParserError", value |-> EmptyDataFrame, banner |-> "none"]

load_data ==
    IF cache # <<>>
    THEN [raised |-> "none", value |-> cache[1].value, banner |-> cache[1].banner,
          cache |-> cache, reads |-> 0]
    ELSE LET r == load_data_body
         IN  [raised |-> r.raised, value |-> r.value, banner |-> r.banner,
              cache |-> IF r.raised = "none"
                        THEN <<[value |-> r.value, banner |-> r.banner]>>
                        ELSE <<>>,
              reads |-> 1]

(***************************************************************************)
(* 4. The filter: df.copy(), then one isin() row mask per non-empty        *)
(* selection.  Boolean-mask indexing keeps the rows, their order and their *)
(* index labels.                                                           *)
(***************************************************************************)
isin(value, values) == value \in Range(values)

\* MaskRows with the kept rows in reverse order.
MaskRows_Reversed(frame, column, values) ==
    LET Keep(r) == isin(r[column], values)
        kept == SelectSeq(frame, Keep)
    IN  [i \in 1..Len(kept) |-> kept[Len(kept) + 1 - i]]

MaskRows(frame, column, values) ==
    LET Keep(r) == isin(r[column], values) IN SelectSeq(frame, Keep)

\* FilterRows with the second mask skipped whenever the first one applies.
FilterRows_Elif(frame, personal_colors, bone_structures) ==
    IF personal_colors # <<>>
    THEN MaskRows(frame, "Personal_Color_Type", personal_colors)
    ELSE IF bone_structures # <<>>
         THEN MaskRows(frame, "Bone_Structure_Type", bone_structures)
         ELSE frame

FilterRows(frame, personal_colors, bone_structures) ==
    LET step1 == IF personal_colors # <<>>
                 THEN MaskRows(frame, "Personal_Color_Type", personal_colors)
                 ELSE frame
    IN  IF bone_structures # <<>>
        THEN MaskRows(step1, "Bone_Structure_Type", bone_structures)
        ELSE step1

(***************************************************************************)
(* 5. The presentation tabs.                                               *)
(***************************************************************************)
Project(r, columns) == [c \in Range(columns) |-> r[c]]

ResetIndex(frame, columns) ==
    [i \in 1..Len(frame) |-> Project(frame[i], columns) @@ ("index" :> (i - 1))]

to_csv(frame, columns) == [i \in 1..Len(frame) |-> Project(frame[i], columns)]

\* value_counts that records each key once, with no tally.
value_counts_Presence(frame, column) ==
    {<<k, 1>> : k \in {frame[i][column] : i \in 1..Len(frame)}}

value_counts(frame, column) ==
    {<<k, Cardinality({i \in 1..Len(frame) : frame[i][column] = k})>> :
        k \in {frame[i][column] : i \in 1..Len(frame)}}

NotRendered == [signal |-> "none"]

Tab1(frame) ==
    IF frame # <<>>
    THEN [signal |-> "data",
          table |-> ResetIndex(frame, display_columns),
          download |-> to_csv(frame, display_columns)]
    ELSE [signal |-> "empty"]

Tab2(frame) ==
    IF frame # <<>>
    THEN [signal |-> "data", counts |-> value_counts(frame, "Category")]
    ELSE [signal |-> "empty"]

Tab3(frame) ==
    IF frame # <<>>
    THEN [signal |-> "data", counts |-> value_counts(frame, "Color_Group")]
    ELSE [signal |-> "empty"]

(***************************************************************************)
(* Tab 4, the advisory exchange.  The whole of it is one try block with    *)
(* two except clauses: KeyError, then Exception.                           *)
(***************************************************************************)
RECURSIVE join(_, _)
join(sep, labels) ==
    IF labels = <<>> THEN ""
    ELSE IF Len(labels) = 1 THEN labels[1]
    ELSE labels[1] \o sep \o join(sep, Tail(labels))

\* head that does not cut the frame.
head_Whole(frame, n) == frame

head(frame, n) == SubSeq(frame, 1, Min(n, Len(frame)))

to_string(frame, columns) ==
    [i \in 1..Len(frame) |->
        Project(frame[i], columns) @@ ("index" :> frame[i].index)]

Text(s) == [text |-> s, table |-> <<>>]

Table(rows) == [text |-> "", table |-> rows]

Summary(labels) == IF labels # <<>> THEN join(", ", labels) ELSE "unselected"

Preview(frame) ==
    IF frame # <<>>
    THEN Table(to_string(head(frame, HeadRows), prompt_columns))
    ELSE Text("(no matching items)")

prompt_parts(personal_colors, bone_structures, frame, query) ==
    <<Text("You are a personal adviser for fashion and cosmetics."),
      Text("User's personal colour: " \o Summary(personal_colors)),
      Text("User's bone structure type: " \o Summary(bone_structures)),
      Text(""),
      Text("Some of the items shown now (for reference):"),
      Preview(frame),
      Text(""),
      Text("Question from the user: " \o query),
      Text("Given the above, give concrete and useful fashion and cosmetics advice."),
      Text("Please answer politely, in honorific language.")>>

NotConfigured == "not-configured"

NoAdvice ==
    [result |-> "none", form |-> FALSE, configured |-> NotConfigured,
     prompt |-> <<>>, calls |-> 0, raised |-> "none", cause |-> "none"]

\* QueryGiven without the emptiness test of line 151.
QueryGiven_Always(query) == TRUE

QueryGiven(query) == query # ""

ConfigureKey(api_key) == HardCodedKey

\* ExceptClause without the except KeyError clause.
ExceptClause_NoKeyError(exc) == [result |-> "ServiceError", cause |-> exc]

ExceptClause(exc) ==
    IF exc = "KeyError"
    THEN [result |-> "ConfigurationError", cause |-> "none"]
    ELSE [result |-> "ServiceError", cause |-> exc]

TryBlock(store, personal_colors, bone_structures, frame, query, button, outcome) ==
    IF SecretName \notin DOMAIN store
    THEN [NoAdvice EXCEPT !.raised = "KeyError"]
    ELSE LET shown == [NoAdvice EXCEPT !.configured = ConfigureKey(store[SecretName]),
                                       !.form = TRUE, !.result = "form"]
         IN  IF ~button THEN shown
             ELSE IF ~QueryGiven(query)
                  THEN [shown EXCEPT !.result = "ValidationError"]
                  ELSE LET sent ==
                               [shown EXCEPT
                                  !.prompt = prompt_parts(personal_colors,
                                                 bone_structures, frame, query),
                                  !.calls = 1]
                       IN  IF outcome = "ok"
                           THEN [sent EXCEPT !.result = "advice"]
                           ELSE [sent EXCEPT !.raised = outcome]

Tab4(store, personal_colors, bone_structures, frame, query, button, outcome) ==
    LET t == TryBlock(store, personal_colors, bone_structures, frame, query,
                      button, outcome)
    IN  IF t.raised = "none" THEN t
        ELSE [t EXCEPT !.result = ExceptClause(t.raised).result,
                       !.cause = ExceptClause(t.raised).cause]

(***************************************************************************)
(* One run of the script, with the widget values and the outcome of the    *)
(* external call that the run meets.                                       *)
(***************************************************************************)
Script(personal_colors, bone_structures, query, button, outcome) ==
    LET ld == load_data
        shown == FilterRows(ld.value, personal_colors, bone_structures)
        halted == ld.raised # "none" \/ ld.value = EmptyDataFrame
    IN  /\ cache # <<>> \/ readCount < MaxReads
        /\ cache' = ld.cache
        /\ readCount' = readCount + ld.reads
        /\ banner' = IF ld.raised # "none" THEN "UncaughtException" ELSE ld.banner
        /\ status' = IF ld.raised # "none" THEN "crashed"
                     ELSE IF ld.value = EmptyDataFrame THEN "stopped"
                     ELSE "rendered"
        /\ selected_personal_colors' = personal_colors
        /\ selected_bone_structures' = bone_structures
        /\ user_query' = query
        /\ df' = IF ld.raised # "none" THEN EmptyDataFrame ELSE ld.value
        /\ filtered_df' = IF halted THEN EmptyDataFrame ELSE shown
        /\ tab1' = IF halted THEN NotRendered ELSE Tab1(shown)
        /\ tab2' = IF halted THEN NotRendered ELSE Tab2(shown)
        /\ tab3' = IF halted THEN NotRendered ELSE Tab3(shown)
        /\ clicked' = (~halted /\ button)
        /\ advice' = IF halted THEN NoAdvice
                     ELSE Tab4(secrets, personal_colors, bone_structures, shown,
                               query, button, outcome)
        /\ UNCHANGED <<resource, fileRows, secrets>>

Init ==
    /\ resource \in {"ok", "absent", "malformed"}
    /\ fileRows \in IF resource = "ok" THEN CatalogFiles ELSE {<<>>}
    /\ secrets \in SecretStores
    /\ cache = <<>>
    /\ readCount = 0
    /\ selected_personal_colors = <<>>
    /\ selected_bone_structures = <<>>
    /\ user_query = ""
    /\ status = "start"
    /\ banner = "none"
    /\ df = EmptyDataFrame
    /\ filtered_df = EmptyDataFrame
    /\ tab1 = NotRendered
    /\ tab2 = NotRendered
    /\ tab3 = NotRendered
    /\ clicked = FALSE
    /\ advice = NoAdvice

Remove(s, i) == SubSeq(s, 1, i - 1) \o SubSeq(s, i + 1, Len(s))

Rerun ==
    Script(selected_personal_colors, selected_bone_structures, user_query, FALSE, "ok")

AddPersonalColor ==
    /\ status = "rendered"
    /\ Len(selected_personal_colors) < MaxSel
    /\ \E l \in Range(personal_color_options) \ Range(selected_personal_colors) :
          Script(Append(selected_personal_colors, l), selected_bone_structures,
                 user_query, FALSE, "ok")

RemovePersonalColor ==
    /\ status = "rendered"
    /\ \E i \in 1..Len(selected_personal_colors) :
          Script(Remove(selected_personal_colors, i), selected_bone_structures,
                 user_query, FALSE, "ok")

AddBoneStructure ==
    /\ status = "rendered"
    /\ Len(selected_bone_structures) < MaxSel
    /\ \E l \in Range(bone_structure_options) \ Range(selected_bone_structures) :
          Script(selected_personal_colors, Append(selected_bone_structures, l),
                 user_query, FALSE, "ok")

RemoveBoneStructure ==
    /\ status = "rendered"
    /\ \E i \in 1..Len(selected_bone_structures) :
          Script(selected_personal_colors, Remove(selected_bone_structures, i),
                 user_query, FALSE, "ok")

EditQuestion ==
    /\ status = "rendered"
    /\ advice.form
    /\ \E q \in Questions \ {user_query} :
          Script(selected_personal_colors, selected_bone_structures, q, FALSE, "ok")

ClickAdvise ==
    /\ status = "rendered"
    /\ advice.form
    /\ \E outcome \in IF QueryGiven(user_query) THEN CallOutcomes ELSE {"ok"} :
          Script(selected_personal_colors, selected_bone_structures, user_query,
                 TRUE, outcome)

Next ==
    \/ Rerun
    \/ AddPersonalColor
    \/ RemovePersonalColor
    \/ AddBoneStructure
    \/ RemoveBoneStructure
    \/ EditQuestion
    \/ ClickAdvise

Spec == Init /\ [][Next]_vars

(***************************************************************************)
(* Properties.                                                             *)
(***************************************************************************)
Passes(r) ==
    /\ selected_personal_colors = <<>>
         \/ r.Personal_Color_Type \in Range(selected_personal_colors)
    /\ selected_bone_structures = <<>>
         \/ r.Bone_Structure_Type \in Range(selected_bone_structures)

\* C1: after every script run that renders, the filtered view holds a record of
\* the catalogue exactly when the record passes both facet tests of the current
\* selection (an empty selection passes everything), and nothing else.
C1_FilteredViewIsExactlyTheMatches ==
    status = "rendered" =>
        /\ \A r \in Range(df) : r \in Range(filtered_df) <=> Passes(r)
        /\ Range(filtered_df) \subseteq Range(df)

\* C1 witness: both selections are non-empty, one chosen personal colour occurs
\* nowhere in the catalogue, and the view is a non-empty proper part of it.
C1_Witness ==
    /\ status = "rendered"
    /\ selected_personal_colors # <<>>
    /\ selected_bone_structures # <<>>
    /\ filtered_df # <<>>
    /\ Len(filtered_df) < Len(df)
    /\ \E l \in Range(selected_personal_colors) :
          \A i \in 1..Len(df) : df[i].Personal_Color_Type # l

\* C2: the filtered view is a subsequence of the catalogue: its rows are rows
\* of the catalogue at strictly increasing positions (so none is repeated or
\* moved), and with both selections empty it is the catalogue itself.
C2_FilteredViewIsSubsequence ==
    status = "rendered" =>
        /\ \A i \in 1..Len(filtered_df) :
              /\ filtered_df[i].index + 1 \in 1..Len(df)
              /\ filtered_df[i] = df[filtered_df[i].index + 1]
        /\ \A i, j \in 1..Len(filtered_df) :
              i < j => filtered_df[i].index < filtered_df[j].index
        /\ (selected_personal_colors = <<>> /\ selected_bone_structures = <<>>)
              => filtered_df = df

\* C2 witness: a filter that keeps at least two rows and drops at least one.
C2_Witness ==
    /\ status = "rendered"
    /\ selected_personal_colors # <<>>
    /\ Len(filtered_df) >= 2
    /\ Len(filtered_df) < Len(df)

\* C3: a button press with an empty question ends in the validation warning,
\* with no prompt built and no call made, and leaves both selections and the
\* filtered view as they were.
C3_EmptyQuestionRejected ==
    [][(clicked' /\ user_query' = "") =>
          /\ advice'.result = "ValidationError"
          /\ advice'.prompt = <<>>
          /\ advice'.calls = 0
          /\ selected_personal_colors' = selected_personal_colors
          /\ selected_bone_structures' = selected_bone_structures
          /\ filtered_df' = filtered_df]_vars

\* C3 witness: the button was pressed with an empty question while a selection
\* was in force.
C3_Witness ==
    /\ clicked
    /\ user_query = ""
    /\ selected_personal_colors # <<>>
    /\ advice.result = "ValidationError"

C5_ConfiguredWithStoredSecret ==
    advice.configured # NotConfigured => advice.configured = secrets[SecretName]

\* C6: after a run whose catalogue file is absent or malformed, the load error
\* banner is shown and the run has halted at st.stop(), with no filter, tab or
\* advisory step executed.
C6_ReadFailureIsLoadError ==
    (resource # "ok" /\ status # "start") =>
        /\ banner = "LoadError"
        /\ status = "stopped"
        /\ filtered_df = EmptyDataFrame
        /\ tab1 = NotRendered /\ tab2 = NotRendered /\ tab3 = NotRendered
        /\ advice = NoAdvice

\* C7: a run in which the external call raised ends in the service error that
\* carries the raised cause, after exactly one call, with both selections and
\* the filtered view as before.
C7_CallFailureIsServiceError ==
    [][(advice'.calls = 1 /\ advice'.raised # "none") =>
          /\ advice'.result = "ServiceError"
          /\ advice'.cause = advice'.raised
          /\ selected_personal_colors' = selected_personal_colors
          /\ selected_bone_structures' = selected_bone_structures
          /\ filtered_df' = filtered_df]_vars

\* The labels of a selection written one after another, each but the first
\* preceded by a comma and a space.
CommaJoined(labels) ==
    LET upTo[n \in 0..Len(labels)] ==
            IF n = 0 THEN ""
            ELSE IF n = 1 THEN labels[1]
            ELSE upTo[n - 1] \o ", " \o labels[n]
    IN  upTo[Len(labels)]

ExpectedSummary(labels) ==
    IF labels = <<>> THEN "unselected" ELSE CommaJoined(labels)

\* C8: the prompt handed to the service holds, in this order, the role
\* sentence, the personal-colour summary, the bone-structure summary, the
\* sample preview, the whole question and the two closing sentences; a summary
\* is the comma-joined labels, or "unselected" exactly for an empty selection;
\* the preview is the first min(5, n) rows of the filtered view, in order, or
\* the no-items marker exactly for an empty view.
C8_PromptStructure ==
    advice.calls = 1 =>
        LET p == advice.prompt
            n == Min(HeadRows, Len(filtered_df))
        IN  /\ user_query # ""
            /\ Len(p) = 10
            /\ p[1] = Text("You are a personal adviser for fashion and cosmetics.")
            /\ p[2] = Text("User's personal colour: "
                             \o ExpectedSummary(selected_personal_colors))
            /\ p[3] = Text("User's bone structure type: "
                             \o ExpectedSummary(selected_bone_structures))
            /\ IF filtered_df = <<>>
               THEN p[6] = Text("(no matching items)")
               ELSE /\ p[6].text = ""
                    /\ Len(p[6].table) = n
                    /\ \A i \in 1..n :
                          /\ p[6].table[i].index = filtered_df[i].index
                          /\ \A c \in Range(prompt_columns) :
                                p[6].table[i][c] = filtered_df[i][c]
            /\ p[8] = Text("Question from the user: " \o user_query)
            /\ p[9] = Text("Given the above, give concrete and useful fashion and cosmetics advice.")
            /\ p[10] = Text("Please answer politely, in honorific language.")

\* C8 witness: a prompt was sent while the filtered view held more than five
\* rows.
C8_Witness ==
    /\ advice.calls = 1
    /\ Len(filtered_df) > HeadRows
    /\ Len(advice.prompt[6].table) = HeadRows

\* C9: the catalogue file is read at most once in a process, and every run
\* that gets a catalogue gets the cached one, with the file's records in the
\* file's order.
C9_CatalogReadAtMostOnce ==
    /\ readCount <= 1
    /\ status = "rendered" => (cache # <<>> /\ df = cache[1].value
                                 /\ df = read_csv(fileRows))

RECURSIVE SumCounts(_)
SumCounts(pairs) ==
    IF pairs = {} THEN 0
    ELSE LET x == CHOOSE y \in pairs : TRUE
         IN  x[2] + SumCounts(pairs \ {x})

Tally(counts, column) ==
    LET keys == {filtered_df[i][column] : i \in 1..Len(filtered_df)}
    IN  /\ {x[1] : x \in counts} = keys
        /\ Cardinality(counts) = Cardinality(keys)
        /\ \A x \in counts :
              x[2] = Cardinality({i \in 1..Len(filtered_df) :
                                     filtered_df[i][column] = x[1]})
        /\ SumCounts(counts) = Len(filtered_df)

\* C10: each distribution holds one (key, count) pair per distinct key of the
\* filtered view, the count being the number of rows with that key, so that
\* the counts add up to the number of rows; for an empty view the listing and
\* both distributions give the empty signal and the run does not fail.
C10_DistributionsCountTheView ==
    status = "rendered" =>
        IF filtered_df = <<>>
        THEN tab1.signal = "empty" /\ tab2.signal = "empty" /\ tab3.signal = "empty"
        ELSE /\ tab1.signal = "data"
             /\ tab2.signal = "data" /\ Tally(tab2.counts, "Category")
             /\ tab3.signal = "data" /\ Tally(tab3.counts, "Color_Group")

\* C10 witness: a filtered selection whose view has two categories, one of
\* them on more than one row.
C10_Witness ==
    /\ status = "rendered"
    /\ selected_bone_structures # <<>>
    /\ tab2.signal = "data"
    /\ Cardinality(tab2.counts) >= 2
    /\ \E x \in tab2.counts : x[2] >= 2

====
